---- MODULE Spec2Model ----
(***************************************************************************)
(* Model of synapseclient/core/sts_transfer.py: the self pruning           *)
(* _TokenCache (an OrderedDict), and StsTokenStore.get_token, which        *)
(* guards one _TokenCache per STS permission with a single lock; then      *)
(* get_sts_credentials and with_boto_sts_credentials, which call it.       *)
(*                                                                         *)
(* Spec: threads call get_token directly.  FairSpec: the same with a       *)
(* still clock and fair scheduling.  SpecCred: one caller goes through     *)
(* get_sts_credentials and with_boto_sts_credentials.  SpecCache: items    *)
(* are stored in a _TokenCache directly.                                   *)
(*                                                                         *)
(* Time is an integer number of ticks.  A token is the dictionary the      *)
(* transport returns; only its 'expiration' is read by this code, and it   *)
(* is kept here as the tick the ISO string denotes.  The fields id,        *)
(* entity and permission of a token record which _fetch_token call         *)
(* produced it.                                                            *)
(***************************************************************************)
EXTENDS Integers, Sequences, FiniteSets

(* ---------------------------- bounds ----------------------------------- *)
MaxClock == 1
MaxExpiration == 1
MaxMinLife == 1
MaxCalls == 2
MaxTokenCacheSize == 2
MaxInserts == 4

(* ---------------------------- constants -------------------------------- *)
STS_PERMISSIONS == {"read_only", "read_write"}

Threads == {"t1", "t2"}
Entities == {"syn1", "syn2"}
PermissionInputs == STS_PERMISSIONS \cup {"bogus"}
MinLifeInputs == 0..MaxMinLife
Expirations == 0..MaxExpiration

NoThread == "none"
NoError == "none"
NoToken == [id |-> 0, entity |-> "none", permission |-> "none", expiration |-> 0]

\* DEFAULT_MIN_LIFE = datetime.timedelta(hours=1): a tick is an hour
DEFAULT_MIN_LIFE == 1

\* min_remaining_life=None
None == -1
\* the thread that calls get_sts_credentials and with_boto_sts_credentials
Caller == "t1"
\* the output_format values get_sts_credentials has a branch for
OutputFormats == {"json", "boto", "shell", "bash", "cmd", "powershell"}
OutputFormatInputs == OutputFormats \cup {"xml"}
CallerMinLifeInputs == {None} \cup MinLifeInputs
\* line 138, platform.system() == 'Windows' and 'bash' not in SHELL: read
\* for output_format 'shell' only
PlatformInputs(f) == IF f = "shell" THEN BOOLEAN ELSE {FALSE}
\* what fn may raise: a Boto3Error or another exception, whose message
\* holds 'ExpiredToken' or not
FnErrors == {"Boto3Error:ExpiredToken", "Boto3Error", "Exception:ExpiredToken",
             "Exception"}
NoValue == [format |-> "none", id |-> 0, expiration |-> None]

\* the keys a _TokenCache is driven with on its own
CacheKeys == {"A", "B", "C"}

VARIABLES
    clock,              \* datetime.datetime.utcnow()
    max_size,           \* _TokenCache.max_size (max_token_cache_size)
    tokens,             \* StsTokenStore._tokens: permission -> _TokenCache
    lock,               \* StsTokenStore._lock: the thread holding it
    pc,                 \* position of each thread in get_token
    entity_id,          \* get_token argument
    permission,         \* get_token argument
    min_remaining_life, \* get_token argument
    utcnow,             \* get_token local: utcnow, while the call is inside
                        \* _fetch_token
    token,              \* get_token local: token, at the end the return value
    error,              \* the exception get_token raised
    fetches,            \* _fetch_token calls made by the current call
    ncalls,             \* get_token calls begun in total
    nfetch,             \* _fetch_token calls made in total
    latest,             \* the thread whose get_token call ended last and
                        \* still has its result
    op,                 \* the function the Caller is in: get_sts_credentials
                        \* or with_boto_sts_credentials
    wpc,                \* the Caller's position in that function
    cred_entity_id,     \* get_sts_credentials argument entity_id
    cred_permission,    \* get_sts_credentials argument permission
    output_format,      \* get_sts_credentials argument
    caller_min_life,    \* get_sts_credentials argument min_remaining_life
    attempt,            \* with_boto_sts_credentials local: attempt
    cred_value,         \* get_sts_credentials local: value; at the end what
                        \* the function returned
    credentials,        \* the credentials fn was invoked with, in order
    fn_raised,          \* what each invocation of fn raised, in order
                        \* (NoError when it returned)
    raised,             \* the exception the function raised
    after_set,          \* _TokenCache.__setitem__: the items when
                        \* super().__setitem__ has returned
    after_size          \* _TokenCache._prune: the items when the size loop
                        \* has ended

storevars == <<clock, max_size, tokens, lock, pc, entity_id, permission,
               min_remaining_life, utcnow, token, error, fetches, ncalls,
               nfetch, latest>>
credvars == <<op, wpc, cred_entity_id, cred_permission, output_format,
              caller_min_life, attempt, cred_value, credentials, fn_raised,
              raised>>
cachevars == <<after_set, after_size>>

vars == <<clock, max_size, tokens, lock, pc, entity_id, permission,
          min_remaining_life, utcnow, token, error, fetches, ncalls, nfetch,
          latest, op, wpc, cred_entity_id, cred_permission, output_format,
          caller_min_life, attempt,
          cred_value, credentials, fn_raised, raised, after_set, after_size>>

(* ------------------------- _TokenCache --------------------------------- *)
\* An OrderedDict is a sequence of [key, value] items, oldest first.

Keys(od) == {od[i].key : i \in 1..Len(od)}

\* (mutant) the lookup ignores the key and takes the oldest item
OdGet_Oldest(od, key) ==
    IF od # <<>> THEN Head(od).value ELSE NoToken

\* OrderedDict.get(key): the value stored under key, else None
OdGet(od, key) ==
    IF key \in Keys(od)
    THEN od[CHOOSE i \in 1..Len(od) : od[i].key = key].value
    ELSE NoToken

\* (mutant) the new item is appended and the old one under the key stays
OdSet_KeepsOld(od, key, value) ==
    Append(od, [key |-> key, value |-> value])

\* OrderedDict.__setitem__: an existing key keeps its position and takes the
\* new value; a new key is appended at the end
OdSet(od, key, value) ==
    IF key \in Keys(od)
    THEN [i \in 1..Len(od) |->
            IF od[i].key = key THEN [key |-> key, value |-> value] ELSE od[i]]
    ELSE Append(od, [key |-> key, value |-> value])

\* (mutant) the size loop pops while len >= max_size
RECURSIVE PruneSize_AtCapacity(_, _)
PruneSize_AtCapacity(od, max) ==
    IF od # <<>> /\ Len(od) >= max
    THEN PruneSize_AtCapacity(Tail(od), max) ELSE od

\* (mutant) the size loop leaves one item too many
RECURSIVE PruneSize_OneTooMany(_, _)
PruneSize_OneTooMany(od, max) ==
    IF Len(od) > max + 1 THEN PruneSize_OneTooMany(Tail(od), max) ELSE od

\* while len(self) > self.max_size: self.popitem(last=False)
RECURSIVE PruneSize(_, _)
PruneSize(od, max) ==
    IF Len(od) > max THEN PruneSize(Tail(od), max) ELSE od

\* (mutant) the scan also deletes an item that expires exactly now
RECURSIVE PruneExpired_AtOrBefore(_, _)
PruneExpired_AtOrBefore(od, now) ==
    IF od = <<>> THEN od
    ELSE IF Head(od).value.expiration <= now
         THEN PruneExpired_AtOrBefore(Tail(od), now)
         ELSE od

\* the expiry scan: from the oldest item, delete while expiration < now,
\* break at the first item that is not
RECURSIVE PruneExpired(_, _)
PruneExpired(od, now) ==
    IF od = <<>> THEN od
    ELSE IF Head(od).value.expiration < now
         THEN PruneExpired(Tail(od), now)
         ELSE od

_prune(od, max, now) == PruneExpired(PruneSize(od, max), now)

__setitem__(od, key, value, max, now) == _prune(OdSet(od, key, value), max, now)

(* ------------------------- StsTokenStore ------------------------------- *)
\* StsTokenStore.__init__, before any thread has called get_token
Init ==
    /\ clock = 0
    /\ max_size \in 0..MaxTokenCacheSize
    /\ tokens = [p \in STS_PERMISSIONS |-> <<>>]
    /\ lock = NoThread
    /\ pc = [t \in Threads |-> "idle"]
    /\ entity_id = [t \in Threads |-> "none"]
    /\ permission = [t \in Threads |-> "none"]
    /\ min_remaining_life = [t \in Threads |-> 0]
    /\ utcnow = [t \in Threads |-> 0]
    /\ token = [t \in Threads |-> NoToken]
    /\ error = [t \in Threads |-> NoError]
    /\ fetches = [t \in Threads |-> 0]
    /\ ncalls = 0
    /\ nfetch = 0
    /\ latest = NoThread
    /\ op = "none"
    /\ wpc = "idle"
    /\ cred_entity_id = "none"
    /\ cred_permission = "none"
    /\ output_format = "none"
    /\ caller_min_life = None
    /\ attempt = 0
    /\ cred_value = NoValue
    /\ credentials = <<>>
    /\ fn_raised = <<>>
    /\ raised = NoError
    /\ after_set = <<>>
    /\ after_size = <<>>

\* (mutant) get_token does not take the lock
LockAvailable_NoLock == TRUE

\* with self._lock: the lock can be taken
LockAvailable == lock = NoThread

\* (mutant) only an absent token is fetched
NeedsFetch_AbsentOnly(tok, now, min_life) ==
    tok = NoToken

\* (mutant) a token with exactly min_remaining_life left is fetched again
NeedsFetch_AtOrBelow(tok, now, min_life) ==
    tok = NoToken \/ tok.expiration - now <= min_life

\* not token or (iso_to_datetime(token['expiration']) - utcnow) < min_remaining_life
NeedsFetch(tok, now, min_life) ==
    tok = NoToken \/ tok.expiration - now < min_life

\* a thread calls get_token and waits for the lock; the result of its
\* previous call, if any, is dropped.  Nothing reads the arguments of the
\* call before the lock is taken, and they are drawn there.
Call(t) ==
    /\ pc[t] \in {"idle", "done"}
    /\ ncalls < MaxCalls
    /\ pc' = [pc EXCEPT ![t] = "waiting"]
    /\ entity_id' = [entity_id EXCEPT ![t] = "none"]
    /\ permission' = [permission EXCEPT ![t] = "none"]
    /\ min_remaining_life' = [min_remaining_life EXCEPT ![t] = 0]
    /\ token' = [token EXCEPT ![t] = NoToken]
    /\ error' = [error EXCEPT ![t] = NoError]
    /\ fetches' = [fetches EXCEPT ![t] = 0]
    /\ ncalls' = ncalls + 1
    /\ latest' = IF latest = t THEN NoThread ELSE latest
    /\ UNCHANGED <<clock, max_size, tokens, lock, utcnow, nfetch>>

\* (mutant) an unknown permission returns None instead of raising
GetTokenInvalid_ReturnsNone(t, e, p, m) ==
    /\ pc[t] = "waiting"
    /\ LockAvailable
    /\ p \notin STS_PERMISSIONS
    /\ entity_id' = [entity_id EXCEPT ![t] = e]
    /\ permission' = [permission EXCEPT ![t] = p]
    /\ min_remaining_life' = [min_remaining_life EXCEPT ![t] = m]
    /\ pc' = [pc EXCEPT ![t] = "done"]
    /\ latest' = t
    /\ UNCHANGED <<clock, max_size, tokens, lock, utcnow, token, error,
                   fetches, ncalls, nfetch>>

\* lines 77-81: the lock is taken, utcnow read (the clock of this step), and
\* the permission is not a key of self._tokens: ValueError leaves the with
\* block
GetTokenInvalid(t, e, p, m) ==
    /\ pc[t] = "waiting"
    /\ LockAvailable
    /\ p \notin STS_PERMISSIONS
    /\ entity_id' = [entity_id EXCEPT ![t] = e]
    /\ permission' = [permission EXCEPT ![t] = p]
    /\ min_remaining_life' = [min_remaining_life EXCEPT ![t] = m]
    /\ error' = [error EXCEPT ![t] = "ValueError"]
    /\ pc' = [pc EXCEPT ![t] = "done"]
    /\ latest' = t
    /\ UNCHANGED <<clock, max_size, tokens, lock, utcnow, token, fetches,
                   ncalls, nfetch>>

\* lines 77-84 and 88: the cached token has enough life left at utcnow (the
\* clock of this step) and is returned
GetTokenCached(t, e, p, m) ==
    /\ pc[t] = "waiting"
    /\ LockAvailable
    /\ p \in STS_PERMISSIONS
    /\ LET tok == OdGet(tokens[p], e) IN
         /\ ~NeedsFetch(tok, clock, m)
         /\ token' = [token EXCEPT ![t] = tok]
    /\ entity_id' = [entity_id EXCEPT ![t] = e]
    /\ permission' = [permission EXCEPT ![t] = p]
    /\ min_remaining_life' = [min_remaining_life EXCEPT ![t] = m]
    /\ pc' = [pc EXCEPT ![t] = "done"]
    /\ latest' = t
    /\ UNCHANGED <<clock, max_size, tokens, lock, utcnow, error, fetches,
                   ncalls, nfetch>>

\* lines 77-86: no cached token, or not enough life left: _fetch_token is
\* called with the lock held
GetTokenFetch(t, e, p, m) ==
    /\ pc[t] = "waiting"
    /\ LockAvailable
    /\ p \in STS_PERMISSIONS
    /\ LET tok == OdGet(tokens[p], e) IN
         /\ NeedsFetch(tok, clock, m)
         /\ token' = [token EXCEPT ![t] = tok]
    /\ entity_id' = [entity_id EXCEPT ![t] = e]
    /\ permission' = [permission EXCEPT ![t] = p]
    /\ min_remaining_life' = [min_remaining_life EXCEPT ![t] = m]
    /\ utcnow' = [utcnow EXCEPT ![t] = clock]
    /\ lock' = t
    /\ pc' = [pc EXCEPT ![t] = "fetching"]
    /\ fetches' = [fetches EXCEPT ![t] = @ + 1]
    /\ nfetch' = nfetch + 1
    /\ UNCHANGED <<clock, max_size, tokens, error, ncalls, latest>>

\* lines 86-88: restGET returns a token, which is stored (the cache prunes
\* itself at the time of the store) and returned; the lock is released
FetchReturns(t) ==
    /\ pc[t] = "fetching"
    /\ \E x \in Expirations :
         LET tok == [id |-> nfetch, entity |-> entity_id[t],
                     permission |-> permission[t], expiration |-> x] IN
           /\ tokens' = [tokens EXCEPT ![permission[t]] =
                           __setitem__(@, entity_id[t], tok, max_size, clock)]
           /\ token' = [token EXCEPT ![t] = tok]
    /\ lock' = IF lock = t THEN NoThread ELSE lock
    /\ latest' = t
    /\ pc' = [pc EXCEPT ![t] = "done"]
    /\ utcnow' = [utcnow EXCEPT ![t] = 0]
    /\ UNCHANGED <<clock, max_size, entity_id, permission, min_remaining_life,
                   error, fetches, ncalls, nfetch>>

\* (mutant) a failed refresh drops the stale item
FetchRaises_DropsStale(t) ==
    /\ pc[t] = "fetching"
    /\ error' = [error EXCEPT ![t] = "TransportError"]
    /\ token' = [token EXCEPT ![t] = NoToken]
    /\ tokens' = [tokens EXCEPT ![permission[t]] =
                    SelectSeq(@, LAMBDA it : it.key # entity_id[t])]
    /\ lock' = IF lock = t THEN NoThread ELSE lock
    /\ latest' = t
    /\ pc' = [pc EXCEPT ![t] = "done"]
    /\ utcnow' = [utcnow EXCEPT ![t] = 0]
    /\ UNCHANGED <<clock, max_size, entity_id, permission,
                   min_remaining_life, fetches, ncalls, nfetch>>

\* (mutant) the lock is not released when the fetch raises
FetchRaises_KeepsLock(t) ==
    /\ pc[t] = "fetching"
    /\ error' = [error EXCEPT ![t] = "TransportError"]
    /\ token' = [token EXCEPT ![t] = NoToken]
    /\ latest' = t
    /\ pc' = [pc EXCEPT ![t] = "done"]
    /\ utcnow' = [utcnow EXCEPT ![t] = 0]
    /\ UNCHANGED <<clock, max_size, tokens, lock, entity_id, permission,
                   min_remaining_life, fetches, ncalls, nfetch>>

\* line 86: restGET raises; the exception leaves the with block
FetchRaises(t) ==
    /\ pc[t] = "fetching"
    /\ error' = [error EXCEPT ![t] = "TransportError"]
    /\ token' = [token EXCEPT ![t] = NoToken]
    /\ lock' = IF lock = t THEN NoThread ELSE lock
    /\ latest' = t
    /\ pc' = [pc EXCEPT ![t] = "done"]
    /\ utcnow' = [utcnow EXCEPT ![t] = 0]
    /\ UNCHANGED <<clock, max_size, tokens, entity_id, permission,
                   min_remaining_life, fetches, ncalls, nfetch>>

\* time passes
Tick ==
    /\ clock < MaxClock
    /\ clock' = clock + 1
    /\ UNCHANGED <<max_size, tokens, lock, pc, entity_id, permission,
                   min_remaining_life, utcnow, token, error, fetches, ncalls,
                   nfetch, latest>>

\* the threads call get_token directly
Next ==
    \/ /\ \E t \in Threads : Call(t)
       /\ UNCHANGED <<credvars, cachevars>>
    \/ /\ \E t \in Threads, e \in Entities, p \in PermissionInputs,
             m \in MinLifeInputs : GetTokenInvalid(t, e, p, m)
       /\ UNCHANGED <<credvars, cachevars>>
    \/ /\ \E t \in Threads, e \in Entities, p \in PermissionInputs,
             m \in MinLifeInputs : GetTokenCached(t, e, p, m)
       /\ UNCHANGED <<credvars, cachevars>>
    \/ /\ \E t \in Threads, e \in Entities, p \in PermissionInputs,
             m \in MinLifeInputs : GetTokenFetch(t, e, p, m)
       /\ UNCHANGED <<credvars, cachevars>>
    \/ /\ \E t \in Threads : FetchReturns(t)
       /\ UNCHANGED <<credvars, cachevars>>
    \/ /\ \E t \in Threads : FetchRaises(t)
       /\ UNCHANGED <<credvars, cachevars>>
    \/ /\ Tick
       /\ UNCHANGED <<credvars, cachevars>>

Spec == Init /\ [][Next]_vars

\* line 77: thread t, blocked in self._lock.acquire(), gets the lock
Acquire(t) ==
    /\ \E e \in Entities, p \in PermissionInputs, m \in MinLifeInputs :
          \/ GetTokenInvalid(t, e, p, m)
          \/ GetTokenCached(t, e, p, m)
          \/ GetTokenFetch(t, e, p, m)
    /\ UNCHANGED <<credvars, cachevars>>

\* line 86: the restGET of thread t ends, by returning or by raising
FetchEnds(t) ==
    /\ FetchReturns(t) \/ FetchRaises(t)
    /\ UNCHANGED <<credvars, cachevars>>

\* the threads call get_token while the clock stands still (the lock does
\* not depend on the time)
NextStill ==
    \/ /\ \E t \in Threads : Call(t)
       /\ UNCHANGED <<credvars, cachevars>>
    \/ \E t \in Threads : Acquire(t)
    \/ \E t \in Threads : FetchEnds(t)

\* every fetch terminates, and a thread blocked on a lock that stays free
\* acquires it
FairSpec ==
    /\ Init /\ [][NextStill]_vars
    /\ \A t \in Threads : WF_vars(Acquire(t)) /\ WF_vars(FetchEnds(t))

TypeOK ==
    /\ clock \in 0..MaxClock
    /\ max_size \in 0..MaxTokenCacheSize
    /\ lock \in Threads \cup {NoThread}
    /\ latest \in Threads \cup {NoThread}
    /\ ncalls \in 0..MaxCalls
    /\ nfetch \in 0..ncalls
    /\ \A t \in Threads : pc[t] \in {"idle", "waiting", "fetching", "done"}

(* ---------------- get_sts_credentials, with_boto_sts_credentials -------- *)
\* (mutant) only None takes the default
OrDefault_NoneOnly(m) ==
    IF m = None THEN DEFAULT_MIN_LIFE ELSE m

\* line 121: min_remaining_life or DEFAULT_MIN_LIFE; None and
\* datetime.timedelta(0) are both false
OrDefault(m) ==
    IF m = None \/ m = 0 THEN DEFAULT_MIN_LIFE ELSE m

\* (mutant) every output_format is taken for json
Recognized_Any(f) == TRUE

\* lines 125-156: the chain of branches ends in raise ValueError for an
\* output_format that has no branch
Recognized(f) == f \in OutputFormats

\* lines 125-153: the value made from the token for a recognised
\* output_format; json is the token as it is, the others keep the three
\* credential keys and drop the expiration; shell is cmd or bash by platform
FormatValue(tok, f, windows_cmd) ==
    IF f = "json"
    THEN [format |-> "json", id |-> tok.id, expiration |-> tok.expiration]
    ELSE IF f = "shell"
    THEN [format |-> IF windows_cmd THEN "cmd" ELSE "bash", id |-> tok.id,
          expiration |-> None]
    ELSE [format |-> f, id |-> tok.id, expiration |-> None]

\* (mutant) the retry is made for any Boto3Error
RetryOn_AnyBoto3Error(ex, att) ==
    ex \in {"Boto3Error:ExpiredToken", "Boto3Error"} /\ att = 0

\* lines 177-179: except boto3.exceptions.Boto3Error as ex:
\*     if 'ExpiredToken' in str(ex) and attempt == 0: continue
RetryOn(ex, att) ==
    ex = "Boto3Error:ExpiredToken" /\ att = 0

\* lines 121-123: get_sts_credentials is entered and calls get_token.
\* Nothing reads its arguments before get_token takes the lock, and they
\* are drawn there.
EnterGetStsCredentials ==
    /\ output_format' = "none"
    /\ caller_min_life' = None
    /\ cred_value' = NoValue
    /\ raised' = NoError
    /\ wpc' = "get_token"
    /\ Call(Caller)

\* the Caller calls get_sts_credentials
CallGetStsCredentials ==
    /\ wpc \in {"idle", "done"}
    /\ op' = "get_sts_credentials"
    /\ cred_entity_id' = "none"
    /\ cred_permission' = "none"
    /\ attempt' = 0
    /\ credentials' = <<>>
    /\ fn_raised' = <<>>
    /\ EnterGetStsCredentials
    /\ UNCHANGED cachevars

\* lines 173-174: the Caller calls with_boto_sts_credentials; attempt 0
\* calls get_sts_credentials (a second attempt needs a second get_token
\* call)
CallWithBotoStsCredentials ==
    /\ wpc \in {"idle", "done"}
    /\ ncalls + 2 <= MaxCalls
    /\ op' = "with_boto_sts_credentials"
    /\ cred_entity_id' = "none"
    /\ cred_permission' = "none"
    /\ attempt' = 0
    /\ credentials' = <<>>
    /\ fn_raised' = <<>>
    /\ EnterGetStsCredentials
    /\ UNCHANGED cachevars

\* the arguments of the get_sts_credentials call in progress; line 174
\* passes output_format='boto', no min_remaining_life, and on attempt 1 the
\* entity_id and permission of attempt 0
Arguments(e, p, f, m) ==
    /\ op = "with_boto_sts_credentials" =>
          /\ f = "boto" /\ m = None
          /\ attempt = 1 => e = cred_entity_id /\ p = cred_permission
    /\ cred_entity_id' = e
    /\ cred_permission' = p
    /\ output_format' = f
    /\ caller_min_life' = m

\* lines 125-158 once get_token has returned tok; inside
\* with_boto_sts_credentials line 176 then invokes fn with the value
GetTokenReturned(tok, f, windows_cmd) ==
    IF ~Recognized(f)
    THEN /\ raised' = "UnrecognizedOutputFormat"
         /\ wpc' = "done"
         /\ UNCHANGED <<cred_value, credentials>>
    ELSE /\ cred_value' = FormatValue(tok, f, windows_cmd)
         /\ raised' = NoError
         /\ IF op = "with_boto_sts_credentials"
            THEN /\ credentials' = Append(credentials, cred_value')
                 /\ wpc' = "fn"
            ELSE /\ wpc' = "done"
                 /\ UNCHANGED credentials

\* get_token raised: neither function catches it
GetTokenRaised(err) ==
    /\ raised' = err
    /\ wpc' = "done"
    /\ UNCHANGED <<cred_value, credentials>>

\* line 123, get_token raising ValueError for the permission
CredGetTokenInvalid(e, p, f, m) ==
    /\ wpc = "get_token" /\ pc[Caller] = "waiting"
    /\ Arguments(e, p, f, m)
    /\ GetTokenInvalid(Caller, e, p, OrDefault(m))
    /\ GetTokenRaised(error'[Caller])
    /\ UNCHANGED <<op, attempt, fn_raised, cachevars>>

\* line 123, get_token returning the cached token
CredGetTokenCached(e, p, f, m, windows_cmd) ==
    /\ wpc = "get_token" /\ pc[Caller] = "waiting"
    /\ Arguments(e, p, f, m)
    /\ GetTokenCached(Caller, e, p, OrDefault(m))
    /\ GetTokenReturned(token'[Caller], f, windows_cmd)
    /\ UNCHANGED <<op, attempt, fn_raised, cachevars>>

\* (mutant) the output_format is checked before get_token is called: a call
\* with an unrecognised one raises on a miss without a fetch
CredGetTokenFetch_FormatFirst(e, p, f, m) ==
    /\ wpc = "get_token" /\ pc[Caller] = "waiting"
    /\ Arguments(e, p, f, m)
    /\ IF Recognized(f)
       THEN /\ GetTokenFetch(Caller, e, p, OrDefault(m))
            /\ UNCHANGED <<op, wpc, attempt, cred_value, credentials,
                           fn_raised, raised, cachevars>>
       ELSE /\ LockAvailable
            /\ p \in STS_PERMISSIONS
            /\ NeedsFetch(OdGet(tokens[p], e), clock, OrDefault(m))
            /\ entity_id' = [entity_id EXCEPT ![Caller] = e]
            /\ permission' = [permission EXCEPT ![Caller] = p]
            /\ min_remaining_life' =
                  [min_remaining_life EXCEPT ![Caller] = OrDefault(m)]
            /\ pc' = [pc EXCEPT ![Caller] = "done"]
            /\ latest' = Caller
            /\ raised' = "UnrecognizedOutputFormat"
            /\ wpc' = "done"
            /\ UNCHANGED <<clock, max_size, tokens, lock, utcnow, token,
                           error, fetches, ncalls, nfetch, op, attempt,
                           cred_value, credentials, fn_raised, cachevars>>

\* line 123, get_token calling _fetch_token
CredGetTokenFetch(e, p, f, m) ==
    /\ wpc = "get_token" /\ pc[Caller] = "waiting"
    /\ Arguments(e, p, f, m)
    /\ GetTokenFetch(Caller, e, p, OrDefault(m))
    /\ UNCHANGED <<op, wpc, attempt, cred_value, credentials, fn_raised,
                   raised, cachevars>>

\* line 123, get_token returning the token it fetched
CredFetchReturns(windows_cmd) ==
    /\ wpc = "get_token"
    /\ FetchReturns(Caller)
    /\ GetTokenReturned(token'[Caller], output_format, windows_cmd)
    /\ UNCHANGED <<op, cred_entity_id, cred_permission, output_format,
                   caller_min_life, attempt, fn_raised, cachevars>>

\* line 123, get_token raising what _fetch_token raised
CredFetchRaises ==
    /\ wpc = "get_token"
    /\ FetchRaises(Caller)
    /\ GetTokenRaised(error'[Caller])
    /\ UNCHANGED <<op, cred_entity_id, cred_permission, output_format,
                   caller_min_life, attempt, fn_raised, cachevars>>

\* lines 176 and 183: fn returns and its response, made with the credentials
\* it was given, is returned
FnReturns ==
    /\ wpc = "fn"
    /\ fn_raised' = Append(fn_raised, NoError)
    /\ cred_value' = [format |-> "response", id |-> cred_value.id,
                      expiration |-> None]
    /\ wpc' = "done"
    /\ UNCHANGED <<storevars, op, cred_entity_id, cred_permission,
                   output_format, caller_min_life, attempt, credentials,
                   raised, cachevars>>

\* lines 177-179 and 173-174: fn raises a Boto3Error that names ExpiredToken
\* on attempt 0: the loop goes on to attempt 1 and calls get_sts_credentials
\* again
FnRaisesRetry(ex) ==
    /\ wpc = "fn"
    /\ RetryOn(ex, attempt)
    /\ fn_raised' = Append(fn_raised, ex)
    /\ attempt' = attempt + 1
    /\ EnterGetStsCredentials
    /\ UNCHANGED <<op, cred_entity_id, cred_permission, credentials,
                   cachevars>>

\* lines 177-181: fn raises anything else, or raises on attempt 1: the
\* exception leaves with_boto_sts_credentials
FnRaises(ex) ==
    /\ wpc = "fn"
    /\ ~RetryOn(ex, attempt)
    /\ fn_raised' = Append(fn_raised, ex)
    /\ raised' = ex
    /\ wpc' = "done"
    /\ UNCHANGED <<storevars, op, cred_entity_id, cred_permission,
                   output_format, caller_min_life, attempt,
                   cred_value, credentials, cachevars>>

\* the Caller, alone, calls get_sts_credentials and with_boto_sts_credentials
NextCred ==
    \/ CallGetStsCredentials
    \/ CallWithBotoStsCredentials
    \/ \E e \in Entities, p \in PermissionInputs, f \in OutputFormatInputs,
          m \in CallerMinLifeInputs : CredGetTokenInvalid(e, p, f, m)
    \/ \E e \in Entities, p \in PermissionInputs, f \in OutputFormatInputs,
          m \in CallerMinLifeInputs :
             \E w \in PlatformInputs(f) : CredGetTokenCached(e, p, f, m, w)
    \/ \E e \in Entities, p \in PermissionInputs, f \in OutputFormatInputs,
          m \in CallerMinLifeInputs : CredGetTokenFetch(e, p, f, m)
    \/ \E w \in PlatformInputs(output_format) : CredFetchReturns(w)
    \/ CredFetchRaises
    \/ FnReturns
    \/ \E ex \in FnErrors : FnRaisesRetry(ex)
    \/ \E ex \in FnErrors : FnRaises(ex)
    \/ Tick /\ UNCHANGED <<credvars, cachevars>>

SpecCred == Init /\ [][NextCred]_vars

(* ---------------------- a _TokenCache on its own ------------------------ *)
\* token_cache[key] = token, on the _TokenCache of permission p, with a token
\* that expires at x; nfetch numbers the tokens
CacheInsert(p, key, x) ==
    /\ nfetch < MaxInserts
    /\ nfetch' = nfetch + 1
    /\ LET tok == [id |-> nfetch', entity |-> key, permission |-> p,
                   expiration |-> x] IN
         /\ after_set' = OdSet(tokens[p], key, tok)
         /\ after_size' = PruneSize(after_set', max_size)
         /\ tokens' = [tokens EXCEPT ![p] =
                         __setitem__(@, key, tok, max_size, clock)]
    /\ UNCHANGED <<clock, max_size, lock, pc, entity_id, permission,
                   min_remaining_life, utcnow, token, error, fetches, ncalls,
                   latest, credvars>>

\* items are stored in the two _TokenCache objects one after another
NextCache ==
    \/ \E p \in STS_PERMISSIONS, key \in CacheKeys, x \in Expirations :
          CacheInsert(p, key, x)
    \/ Tick /\ UNCHANGED <<credvars, cachevars>>

SpecCache == Init /\ [][NextCache]_vars

(* ======================================================================= *)
(* Claims                                                                  *)
(* ======================================================================= *)

\* C1 as stated: every token get_token returns has, at the utcnow of that
\* call, at least min_remaining_life left, whatever the transport returned.
\* Refuted: a token that was just fetched is returned without any check.
C1_AnyReturnedTokenHasMinLife ==
    [][\A t \in Threads :
        (pc[t] # "done" /\ pc'[t] = "done" /\ error'[t] = NoError) =>
            LET now == IF pc[t] = "fetching" THEN utcnow[t] ELSE clock
            IN token'[t].expiration - now >= min_remaining_life'[t]
      ]_vars

\* C1 amended: every token get_token returns from the cache (a call that
\* made no fetch) has at least min_remaining_life left at the utcnow of that
\* call.
C1_CachedTokenHasMinLife ==
    [][\A t \in Threads :
        (pc[t] # "done" /\ pc'[t] = "done" /\ error'[t] = NoError
            /\ fetches'[t] = 0) =>
            /\ pc[t] = "waiting"
            /\ token'[t] # NoToken
            /\ token'[t].expiration - clock >= min_remaining_life'[t]
      ]_vars

\* a call was served from the cache a token with exactly the life it asked
\* for
C1_Witness ==
    \E t \in Threads :
        /\ pc[t] = "done" /\ error[t] = NoError /\ fetches[t] = 0
        /\ min_remaining_life[t] >= 1
        /\ token[t].expiration - clock = min_remaining_life[t]

\* C2: every partition holds at most max_size items in every state (an
\* insertion and its pruning are one step under the lock).
C2_PartitionWithinMaxSize ==
    \A p \in STS_PERMISSIONS : Len(tokens[p]) <= max_size

\* at clock 0 nothing can have expired: the first token fetched was stored
\* and then evicted for capacity by the second, for another entity
C2_Witness ==
    \E t \in Threads, u \in Threads :
        /\ max_size = 1 /\ clock = 0 /\ nfetch = 2
        /\ pc[t] = "done" /\ token[t].id = 1
        /\ pc[u] = "done" /\ token[u].id = 2
        /\ permission[t] = permission[u] /\ entity_id[t] # entity_id[u]
        /\ tokens[permission[u]] = <<[key |-> entity_id[u], value |-> token[u]]>>

\* C3: when the lock is taken with a recognised permission, _fetch_token is
\* called exactly when no item is stored under the entity or the stored
\* token has less than min_remaining_life left at the clock of the lookup;
\* otherwise that stored token is returned, no fetch is made and no partition
\* changes.  When the fetch returns, the token returned is the one fetched
\* and no other token remains under the entity: the item holds the fetched
\* token, unless the pruning of that very store dropped it (max_size 0, or a
\* token that had already expired).
C3_FetchExactlyWhenAbsentOrShort ==
    [][\A t \in Threads :
        /\ (pc[t] = "waiting" /\ pc'[t] # "waiting"
                /\ permission'[t] \in STS_PERMISSIONS) =>
             LET od == tokens[permission'[t]]
                 hits == {i \in 1..Len(od) : od[i].key = entity_id'[t]}
                 enough == \E i \in hits :
                     od[i].value.expiration - clock >= min_remaining_life'[t]
             IN /\ (pc'[t] = "fetching") <=> ~enough
                /\ tokens' = tokens
                /\ pc'[t] = "fetching" =>
                      nfetch' = nfetch + 1 /\ fetches'[t] = 1
                /\ pc'[t] # "fetching" =>
                      /\ pc'[t] = "done" /\ error'[t] = NoError
                      /\ nfetch' = nfetch /\ fetches'[t] = 0
                      /\ \E i \in hits : token'[t] = od[i].value
        /\ (pc[t] = "fetching" /\ pc'[t] = "done" /\ error'[t] = NoError) =>
             LET od == tokens'[permission[t]]
                 hits == {i \in 1..Len(od) : od[i].key = entity_id[t]}
             IN /\ token'[t].id = nfetch
                /\ \A p \in STS_PERMISSIONS : \A i \in 1..Len(tokens[p]) :
                      tokens[p][i].value.id # token'[t].id
                /\ \A i \in hits : od[i].value = token'[t]
                /\ Cardinality(hits) <= 1
                /\ hits = {} => (max_size = 0 \/ token'[t].expiration < clock)
      ]_vars

\* a token was fetched and stored, it has not expired, and the next call
\* for the same entity and permission fetched another one, which replaced it
C3_Witness ==
    \E t \in Threads : \E u \in Threads \ {t} :
        /\ ncalls = 2 /\ max_size >= 1 /\ latest = t
        /\ pc[u] = "done" /\ fetches[u] = 1 /\ error[u] = NoError
        /\ pc[t] = "done" /\ fetches[t] = 1 /\ error[t] = NoError
        /\ entity_id[t] = entity_id[u] /\ permission[t] = permission[u]
        /\ token[u].id = 1 /\ token[t].id = 2
        /\ token[u].expiration >= clock
        /\ tokens[permission[t]] =
              <<[key |-> entity_id[t], value |-> token[t]]>>

\* C4 as stated: when both threads have made their first call, for the same
\* entity and permission, on the empty cache, one fetch was made in total and
\* both returned the same token.  It is stated here for max_size at least 1
\* and calls that did not fail, and is refuted even so: the second caller
\* fetches again when the token the first one fetched has less life left
\* than the second caller asks for.
C4_ExactlyOneFetchSameToken ==
    (/\ ncalls = 2 /\ max_size >= 1
     /\ \A t \in Threads : pc[t] = "done" /\ error[t] = NoError
     /\ \A t \in Threads, u \in Threads :
            entity_id[t] = entity_id[u] /\ permission[t] = permission[u])
        => /\ nfetch = 1
           /\ \A t \in Threads, u \in Threads : token[t] = token[u]

\* C4 amended: in that case the fetches are made one at a time, at least
\* one and at most one per caller, and a caller that makes no fetch returns
\* the token the other caller fetched; when both callers fetched a token the
\* two tokens come from two fetches, and max_size is 0 or the first token has
\* less than the second caller's min_remaining_life left; the caller that
\* takes the lock second fetches only if the first one failed, or max_size is
\* 0, or the token the first returned has, at that clock, less than the
\* second caller's min_remaining_life left.
C4_OneFetchUnlessMissOrShort ==
    /\ []((/\ ncalls = 2
           /\ \A t \in Threads :
                  pc[t] = "done" /\ permission[t] \in STS_PERMISSIONS
           /\ \A t \in Threads, u \in Threads :
                  entity_id[t] = entity_id[u] /\ permission[t] = permission[u])
            => /\ nfetch >= 1
               /\ nfetch = Cardinality({t \in Threads : fetches[t] = 1})
               /\ \A u \in Threads : fetches[u] = 0 =>
                      /\ error[u] = NoError /\ token[u] # NoToken
                      /\ \E t \in Threads \ {u} :
                            /\ fetches[t] = 1 /\ error[t] = NoError
                            /\ token[t] = token[u] /\ token[t].id = 1
               /\ (\A t \in Threads : fetches[t] = 1 /\ error[t] = NoError) =>
                      /\ {token[t].id : t \in Threads} = {1, 2}
                      /\ \/ max_size = 0
                         \/ \E t \in Threads : \E u \in Threads \ {t} :
                               /\ token[t].id = 1
                               /\ token[t].expiration - clock
                                     < min_remaining_life[u])
    /\ [][\A t \in Threads : \A u \in Threads \ {t} :
            (/\ ncalls = 2 /\ latest = t /\ pc[t] = "done"
             /\ pc[u] = "waiting" /\ pc'[u] = "fetching"
             /\ entity_id'[u] = entity_id[t] /\ permission'[u] = permission[t])
                => \/ error[t] # NoError
                   \/ max_size = 0
                   \/ token[t].expiration - clock < min_remaining_life'[u]
         ]_vars

\* both threads made one call for the same entity and permission on the
\* empty cache, one fetch was made and both hold the token it returned
C4_Witness ==
    /\ ncalls = 2 /\ nfetch = 1
    /\ \A t \in Threads :
          pc[t] = "done" /\ error[t] = NoError /\ token[t].id = 1
    /\ \E t \in Threads : fetches[t] = 0

\* C5: at most one thread is inside _fetch_token at any time, it holds the
\* lock, and a call makes at most one fetch; while a thread stays inside
\* _fetch_token no partition changes and no waiting thread gets past the
\* lock (so none reads a partition).
C5_OneFetchInFlight ==
    /\ [](/\ Cardinality({t \in Threads : pc[t] = "fetching"}) <= 1
          /\ \A t \in Threads : fetches[t] <= 1
          /\ \A t \in Threads : pc[t] = "fetching" => lock = t)
    /\ [][\A t \in Threads :
            pc[t] = "fetching" =>
               /\ \A u \in Threads \ {t} :
                     pc[u] = "waiting" => pc'[u] = "waiting"
               /\ pc'[t] = "fetching" => tokens' = tokens
         ]_vars

\* one thread is inside _fetch_token while the other waits for the lock
C5_Witness ==
    \E t \in Threads, u \in Threads :
        pc[t] = "fetching" /\ fetches[t] = 1 /\ pc[u] = "waiting"

\* C6 as stated: when a call takes the lock right after a call with the same
\* entity, permission and min_remaining_life returned a token, and that
\* token has not expired, it makes no fetch and returns that same token.
\* It is stated here for max_size at least 1, and is refuted even so: the
\* token may have less than min_remaining_life left, for one when the
\* transport issued it so.
C6_SecondCallServedFromCache ==
    [][\A t \in Threads :
        (/\ pc[t] = "waiting" /\ pc'[t] # "waiting"
         /\ max_size >= 1
         /\ latest \in Threads
         /\ error[latest] = NoError
         /\ entity_id'[t] = entity_id[latest]
         /\ permission'[t] = permission[latest]
         /\ min_remaining_life'[t] = min_remaining_life[latest]
         /\ token[latest].expiration >= clock)
            => /\ pc'[t] = "done" /\ error'[t] = NoError
               /\ token'[t] = token[latest]
               /\ nfetch' = nfetch
      ]_vars

\* C6 amended: when a call takes the lock right after a call with the same
\* entity, permission and min_remaining_life returned a token, it makes no
\* fetch and returns that same token provided max_size is at least 1 and the
\* token still has min_remaining_life left at the clock of the second call.
C6_SecondCallServedIfLifeLeft ==
    [][\A t \in Threads :
        (/\ pc[t] = "waiting" /\ pc'[t] # "waiting"
         /\ latest \in Threads
         /\ error[latest] = NoError
         /\ entity_id'[t] = entity_id[latest]
         /\ permission'[t] = permission[latest]
         /\ min_remaining_life'[t] = min_remaining_life[latest]
         /\ max_size >= 1
         /\ token[latest].expiration - clock >= min_remaining_life'[t])
            => /\ pc'[t] = "done" /\ error'[t] = NoError
               /\ token'[t] = token[latest]
               /\ nfetch' = nfetch
      ]_vars

\* two calls were made with the same arguments, the first fetched and the
\* second, just ended, returned the same token without a fetch
C6_Witness ==
    \E t \in Threads : \E u \in Threads \ {t} :
        /\ ncalls = 2 /\ nfetch = 1 /\ latest = t
        /\ pc[u] = "done" /\ fetches[u] = 1 /\ error[u] = NoError
        /\ pc[t] = "done" /\ fetches[t] = 0 /\ error[t] = NoError
        /\ entity_id[t] = entity_id[u] /\ permission[t] = permission[u]
        /\ min_remaining_life[t] = min_remaining_life[u]
        /\ min_remaining_life[t] >= 1
        /\ token[t] = token[u] /\ token[t] # NoToken

\* C7: whenever an insertion has changed a partition, no token left in that
\* partition has an expiration the clock has passed.  Refuted by the code:
\* the expiry scan stops at the first token that has not expired, and an
\* expired one behind it stays.
C7_NoExpiredTokenAfterInsertion ==
    [][\A p \in STS_PERMISSIONS :
        tokens'[p] # tokens[p] =>
            \A i \in 1..Len(tokens'[p]) :
                tokens'[p][i].value.expiration >= clock
      ]_vars

\* C8: when _fetch_token raises, get_token raises that error, returns no
\* token, and no partition has changed since the call took the lock.
C8_FailedFetchLeavesCache ==
    [][\A t \in Threads :
        /\ (pc[t] = "waiting" /\ pc'[t] = "fetching") => tokens' = tokens
        /\ (pc[t] = "fetching" /\ pc'[t] = "fetching") => tokens' = tokens
        /\ (pc[t] = "fetching" /\ pc'[t] = "done" /\ error'[t] # NoError) =>
              /\ error'[t] = "TransportError"
              /\ token'[t] = NoToken
              /\ tokens' = tokens
        /\ (pc[t] = "fetching" /\ pc'[t] # "fetching") =>
              /\ pc'[t] = "done"
              /\ error'[t] = NoError => token'[t] # NoToken
      ]_vars

\* a refresh of a stored token failed and the stale token is still stored
C8_Witness ==
    \E t \in Threads :
        /\ pc[t] = "done" /\ error[t] = "TransportError" /\ fetches[t] = 1
        /\ OdGet(tokens[permission[t]], entity_id[t]) # NoToken

\* C9: a call whose permission is not in STS_PERMISSIONS raises ValueError,
\* returns no token, makes no fetch and changes no partition.
C9_InvalidPermissionRaises ==
    [][\A t \in Threads :
        (pc[t] = "waiting" /\ pc'[t] # "waiting"
            /\ permission'[t] \notin STS_PERMISSIONS)
            => /\ pc'[t] = "done"
               /\ error'[t] = "ValueError"
               /\ token'[t] = NoToken
               /\ fetches'[t] = 0 /\ nfetch' = nfetch
               /\ tokens' = tokens
      ]_vars

\* a call with an unknown permission failed while tokens were stored
C9_Witness ==
    \E t \in Threads :
        /\ pc[t] = "done" /\ error[t] = "ValueError"
        /\ permission[t] \notin STS_PERMISSIONS
        /\ \E p \in STS_PERMISSIONS : tokens[p] # <<>>

\* C10 as stated: when a fetch returns and the lock is released, the fetched
\* token is the item stored for the entity in the partition of the
\* permission, and the next lookup of that entity and permission finds it.
\* Refuted: with max_size 0, or a token already expired, the pruning of that
\* same store removes it.
C10_FetchedTokenIsStored ==
    [][\A t \in Threads :
        /\ (pc[t] = "fetching" /\ pc'[t] = "done" /\ error'[t] = NoError) =>
              \E i \in 1..Len(tokens'[permission[t]]) :
                  /\ tokens'[permission[t]][i].key = entity_id[t]
                  /\ tokens'[permission[t]][i].value = token'[t]
        /\ (/\ pc[t] = "waiting" /\ pc'[t] # "waiting"
            /\ latest \in Threads
            /\ fetches[latest] = 1 /\ error[latest] = NoError
            /\ entity_id'[t] = entity_id[latest]
            /\ permission'[t] = permission[latest])
              => token'[t] = token[latest]
      ]_vars

\* C10 amended: when a fetch returns and the lock is released, the fetched
\* token is the item stored for the entity in the partition of the
\* permission provided max_size is at least 1 and its expiration is not
\* before the clock of the store; no partition changes while the lock is
\* free; and the next lookup of that entity and permission finds the token
\* that is stored.
C10_FetchedTokenIsStoredUnlessPruned ==
    [][/\ lock = NoThread => tokens' = tokens
       /\ \A t \in Threads :
           /\ (/\ pc[t] = "fetching" /\ pc'[t] = "done" /\ error'[t] = NoError
               /\ max_size >= 1
               /\ token'[t].expiration >= clock) =>
                 \E i \in 1..Len(tokens'[permission[t]]) :
                     /\ tokens'[permission[t]][i].key = entity_id[t]
                     /\ tokens'[permission[t]][i].value = token'[t]
           /\ (/\ pc[t] = "waiting" /\ pc'[t] # "waiting"
               /\ latest \in Threads
               /\ fetches[latest] = 1 /\ error[latest] = NoError
               /\ entity_id'[t] = entity_id[latest]
               /\ permission'[t] = permission[latest]
               /\ \E i \in 1..Len(tokens[permission[latest]]) :
                     /\ tokens[permission[latest]][i].key = entity_id[latest]
                     /\ tokens[permission[latest]][i].value = token[latest])
                 => token'[t] = token[latest]
      ]_vars

\* the call after a fetch looked the same entity and permission up, found the
\* token that was fetched, and is fetching a new one
C10_Witness ==
    \E t \in Threads :
        /\ pc[t] = "fetching" /\ latest \in Threads \ {t}
        /\ fetches[latest] = 1 /\ error[latest] = NoError
        /\ entity_id[t] = entity_id[latest]
        /\ permission[t] = permission[latest]
        /\ token[t] = token[latest] /\ token[t] # NoToken

\* C11: when fn has been invoked a second time by with_boto_sts_credentials
\* (the first invocation raised a Boto3Error naming ExpiredToken), the
\* credentials of the second invocation come from a fetch made by the second
\* get_token call and are not the credentials of the first invocation.
\* Refuted by the code: the second attempt asks the cache again, which hands
\* out the same token while it has DEFAULT_MIN_LIFE left.
C11_RetryUsesFreshCredentials ==
    (op = "with_boto_sts_credentials" /\ Len(credentials) = 2) =>
        /\ fetches[Caller] = 1
        /\ credentials[2].id # credentials[1].id

\* C12: with_boto_sts_credentials invokes fn at most twice, and twice only
\* when the first invocation raised a Boto3Error naming ExpiredToken; what
\* fn raises otherwise (another error on the first invocation, any error on
\* the second) is raised by with_boto_sts_credentials as it is; when an
\* invocation returns, its response is returned and fn is not invoked again.
C12_AtMostTwoInvocations ==
    /\ [](op = "with_boto_sts_credentials" =>
            /\ Len(credentials) <= 2
            /\ Len(fn_raised) <= Len(credentials)
            /\ Len(credentials) = 2 =>
                  /\ attempt = 1
                  /\ fn_raised[1] = "Boto3Error:ExpiredToken")
    /\ [][(op = "with_boto_sts_credentials" /\ wpc = "fn" /\ wpc' # "fn") =>
            LET n == Len(fn_raised') IN
              /\ n = Len(credentials) /\ credentials' = credentials
              /\ IF n = 1 /\ fn_raised'[n] = "Boto3Error:ExpiredToken"
                 THEN wpc' = "get_token" /\ op' = op
                 ELSE /\ wpc' = "done"
                      /\ raised' = fn_raised'[n]
                      /\ fn_raised'[n] = NoError =>
                            /\ cred_value'.format = "response"
                            /\ cred_value'.id = credentials[n].id
         ]_vars

\* the first invocation raised the expired-token error and the second raised
\* it again, which with_boto_sts_credentials raised in turn
C12_Witness ==
    /\ op = "with_boto_sts_credentials" /\ wpc = "done"
    /\ Len(credentials) = 2
    /\ fn_raised = <<"Boto3Error:ExpiredToken", "Boto3Error:ExpiredToken">>
    /\ raised = "Boto3Error:ExpiredToken"

\* C13: the min_remaining_life get_token is called with by
\* get_sts_credentials is DEFAULT_MIN_LIFE when the caller gave None, and
\* otherwise the value the caller gave, zero included.  Refuted by the code:
\* a caller's zero is replaced by DEFAULT_MIN_LIFE.
C13_CallerMinLifeIsUsed ==
    [][(wpc = "get_token" /\ pc[Caller] = "waiting"
            /\ pc'[Caller] # "waiting") =>
          min_remaining_life'[Caller] =
              IF caller_min_life' = None THEN DEFAULT_MIN_LIFE
              ELSE caller_min_life'
      ]_vars

\* C14 as stated: a get_sts_credentials call with an output_format that is
\* not recognised ends with the unrecognised-output-format error and no
\* value, whatever the entity, the permission and the cache.  Refuted: the
\* format is looked at after get_token, whose own error comes first.
C14_UnrecognizedFormatError ==
    (op = "get_sts_credentials" /\ wpc = "done"
        /\ output_format \notin OutputFormats) =>
            /\ raised = "UnrecognizedOutputFormat"
            /\ cred_value = NoValue

\* C14 amended: such a call always ends with an error and no value; the
\* error is the unrecognised-output-format error when get_token returned a
\* token, and otherwise the error get_token raised (the permission is not
\* valid, or the fetch failed).
C14_UnrecognizedFormatFails ==
    (op = "get_sts_credentials" /\ wpc = "done"
        /\ output_format \notin OutputFormats) =>
            /\ raised # NoError
            /\ cred_value = NoValue
            /\ IF error[Caller] = NoError
               THEN /\ raised = "UnrecognizedOutputFormat"
                    /\ token[Caller] # NoToken
               ELSE raised = error[Caller]

\* the call was served from the cache and then failed on the format
C14_Witness ==
    /\ op = "get_sts_credentials" /\ wpc = "done"
    /\ output_format \notin OutputFormats
    /\ raised = "UnrecognizedOutputFormat"
    /\ fetches[Caller] = 0 /\ token[Caller] # NoToken

\* C15: when a token is stored under a key, the item of that key is at the
\* newest position of the partition once it is stored, also when the key
\* was present before.  Refuted by the code: a key that is present keeps
\* its position.
C15_ReinsertMovesToNewest ==
    [][nfetch' = nfetch + 1 =>
          /\ after_set' # <<>>
          /\ after_set'[Len(after_set')].value.id = nfetch'
      ]_vars

\* C16: when storing a token under a new key makes the partition larger
\* than max_size, the size loop leaves max_size items and every item it
\* removed was stored before every item it kept; with max_size at least 1
\* and no expired item the item just stored is still there after the
\* insertion.  Refuted by the code: a key stored again keeps its old place
\* (C15) and is removed before keys stored earlier than its token.
C16_EvictsLeastRecentlyInserted ==
    [][(/\ nfetch' = nfetch + 1
        /\ Len(after_set') > max_size
        /\ \A p \in STS_PERMISSIONS : Len(after_set') > Len(tokens[p])
              \/ after_set'[Len(after_set')].value.permission # p) =>
          LET k == Len(after_set') - Len(after_size') IN
            /\ Len(after_size') = max_size
            /\ \A i \in 1..Len(after_size') : after_size'[i] = after_set'[i + k]
            /\ \A i \in 1..k : \A j \in (k + 1)..Len(after_set') :
                  after_set'[i].value.id < after_set'[j].value.id
            /\ (max_size >= 1 /\ \A i \in 1..Len(after_set') :
                    after_set'[i].value.expiration >= clock) =>
                  \E p \in STS_PERMISSIONS :
                      /\ tokens'[p] # <<>>
                      /\ tokens'[p][Len(tokens'[p])].value.id = nfetch'
      ]_vars

\* C17: with max_size 0 every partition is empty in every state, so every
\* get_token call with a valid permission calls _fetch_token; when the fetch
\* returns, the call ends without error and returns the token of that fetch.
C17_ZeroSizeRetainsNothing ==
    /\ [](max_size = 0 => \A p \in STS_PERMISSIONS : tokens[p] = <<>>)
    /\ [][max_size = 0 => \A t \in Threads :
            /\ (pc[t] = "waiting" /\ pc'[t] # "waiting"
                   /\ permission'[t] \in STS_PERMISSIONS) =>
                  pc'[t] = "fetching" /\ fetches'[t] = 1
            /\ (pc[t] = "fetching" /\ pc'[t] = "done") =>
                  \/ error'[t] = "TransportError" /\ token'[t] = NoToken
                  \/ /\ error'[t] = NoError
                     /\ token'[t].id = nfetch
                     /\ token'[t].entity = entity_id[t]
                     /\ token'[t].permission = permission[t]
         ]_vars

\* two calls for the same entity and permission each fetched their own token
C17_Witness ==
    /\ max_size = 0 /\ nfetch = 2
    /\ \A t \in Threads : pc[t] = "done" /\ error[t] = NoError
    /\ \A t \in Threads, u \in Threads :
          entity_id[t] = entity_id[u] /\ permission[t] = permission[u]
    /\ {token[t].id : t \in Threads} = {1, 2}

\* C18 as stated: the expiry scan of an insertion removes, from the oldest
\* item on, the items whose expiration is at or before the clock, up to the
\* first item that expires after the clock, and nothing behind that one.
\* Refuted: an item that expires exactly at the clock is not removed, and
\* ends the scan.
C18_ScanRemovesAtOrBeforeNow ==
    [][nfetch' = nfetch + 1 =>
          \E k \in 0..Len(after_size') :
              /\ \A i \in 1..k : after_size'[i].value.expiration <= clock
              /\ k < Len(after_size') =>
                    after_size'[k + 1].value.expiration > clock
              /\ tokens'[after_set'[1].value.permission]
                    = SubSeq(after_size', k + 1, Len(after_size'))
      ]_vars

\* C18 amended: the expiry scan of an insertion removes, from the oldest
\* item on, the items whose expiration is before the clock, up to the first
\* item that expires at or after the clock, and nothing behind that one.
C18_ScanRemovesBeforeNow ==
    [][nfetch' = nfetch + 1 =>
          \E k \in 0..Len(after_size') :
              /\ \A i \in 1..k : after_size'[i].value.expiration < clock
              /\ k < Len(after_size') =>
                    after_size'[k + 1].value.expiration >= clock
              /\ tokens'[after_set'[1].value.permission]
                    = SubSeq(after_size', k + 1, Len(after_size'))
      ]_vars

\* the scan removed an expired item and stopped at one that expires
\* exactly now, which stays
C18_Witness ==
    /\ Len(after_size) = 2
    /\ after_size[1].value.expiration < clock
    /\ after_size[2].value.expiration = clock
    /\ tokens[after_set[1].value.permission] = Tail(after_size)

\* C19: the lock is held exactly while a thread is inside _fetch_token, so
\* it is free when a get_token call has ended, however it ended; and, every
\* fetch terminating, a thread that waits for the lock ends its call.
C19_LockFreeAfterEveryCall ==
    /\ [](\A t \in Threads : lock = t <=> pc[t] = "fetching")
    /\ [][\A t \in Threads :
            (pc[t] # "done" /\ pc'[t] = "done") => lock' = NoThread]_vars
    /\ \A t \in Threads : pc[t] = "waiting" ~> pc[t] = "done"

\* a thread waits for the lock after another thread's fetch has raised
C19_Witness ==
    \E t \in Threads : \E u \in Threads \ {t} :
        /\ pc[t] = "waiting"
        /\ pc[u] = "done" /\ error[u] = "TransportError"
        /\ lock = NoThread

\* C20: every token stored in the partition of permission p under entity e
\* was returned by a _fetch_token call for e and p, and so was every token a
\* get_token call for e and p returned; a partition changes only when a
\* fetch for its own permission returns.
C20_TokensMatchEntityAndPermission ==
    /\ [](/\ \A p \in STS_PERMISSIONS : \A i \in 1..Len(tokens[p]) :
                /\ tokens[p][i].value.entity = tokens[p][i].key
                /\ tokens[p][i].value.permission = p
                /\ tokens[p][i].value.id \in 1..nfetch
          /\ \A t \in Threads :
                (pc[t] = "done" /\ error[t] = NoError) =>
                    /\ token[t].entity = entity_id[t]
                    /\ token[t].permission = permission[t]
                    /\ token[t].id \in 1..nfetch)
    /\ [][\A p \in STS_PERMISSIONS :
            tokens'[p] # tokens[p] =>
                \E t \in Threads :
                    /\ pc[t] = "fetching" /\ pc'[t] = "done"
                    /\ permission[t] = p
         ]_vars

\* two calls for the same entity, one per permission: each partition holds
\* the token of its own call
C20_Witness ==
    \E t \in Threads : \E u \in Threads \ {t} :
        /\ pc[t] = "done" /\ pc[u] = "done"
        /\ entity_id[t] = entity_id[u] /\ permission[t] # permission[u]
        /\ \A v \in {t, u} :
              /\ permission[v] \in STS_PERMISSIONS
              /\ tokens[permission[v]] =
                    <<[key |-> entity_id[v], value |-> token[v]]>>

\* C21: a get_sts_credentials call with an unrecognised output_format raises
\* the unrecognised-output-format error only when get_token has returned a
\* token; at the lock it is served from the cache or fetches by the rule of
\* any call (a fetch exactly when no token is stored for the entity or the
\* stored one has less than the min_remaining_life left), it does not raise
\* while the fetch is under way, and when the fetch returns the token is
\* stored (max_size at least 1, token not expired) before the error is
\* raised.
C21_FormatCheckedAfterGetToken ==
    /\ [](raised = "UnrecognizedOutputFormat" =>
            /\ wpc = "done" /\ pc[Caller] = "done"
            /\ output_format \notin OutputFormats
            /\ error[Caller] = NoError /\ token[Caller] # NoToken)
    /\ [][(/\ wpc = "get_token"
           /\ pc[Caller] = "waiting" /\ pc'[Caller] # "waiting"
           /\ output_format' \notin OutputFormats
           /\ cred_permission' \in STS_PERMISSIONS) =>
             LET od == tokens[cred_permission']
                 enough == \E i \in 1..Len(od) :
                    /\ od[i].key = cred_entity_id'
                    /\ od[i].value.expiration - clock
                          >= min_remaining_life'[Caller]
             IN IF enough
                THEN /\ pc'[Caller] = "done" /\ fetches'[Caller] = 0
                     /\ raised' = "UnrecognizedOutputFormat"
                     /\ tokens' = tokens
                ELSE /\ pc'[Caller] = "fetching" /\ fetches'[Caller] = 1
                     /\ wpc' = "get_token" /\ raised' = NoError
         ]_vars
    /\ [][(/\ wpc = "get_token"
           /\ pc[Caller] = "fetching" /\ pc'[Caller] = "done"
           /\ error'[Caller] = NoError
           /\ output_format \notin OutputFormats) =>
             /\ raised' = "UnrecognizedOutputFormat" /\ wpc' = "done"
             /\ (max_size >= 1 /\ token'[Caller].expiration >= clock) =>
                   \E i \in 1..Len(tokens'[cred_permission]) :
                      /\ tokens'[cred_permission][i].key = cred_entity_id
                      /\ tokens'[cred_permission][i].value = token'[Caller]
         ]_vars

\* the failing call has fetched a token, which is now in the cache
C21_Witness ==
    /\ op = "get_sts_credentials" /\ wpc = "done"
    /\ raised = "UnrecognizedOutputFormat"
    /\ fetches[Caller] = 1
    /\ tokens[cred_permission] =
          <<[key |-> cred_entity_id, value |-> token[Caller]]>>

====
